---- MODULE Spec2Model ----
(***************************************************************************)
(* Scalarm simulation manager (scalarmSimulationManager.go).               *)
(*                                                                         *)
(* Three specifications share this module:                                 *)
(*   Spec          the worker process: the main flow of main(), one        *)
(*                 IntermediateMonitoring goroutine per job and one        *)
(*                 detached cleanup goroutine per job, interleaved;        *)
(*   LiveSpec      Spec with the fairness of the Go scheduler;             *)
(*   DispatchSpec  one call of ExecuteScalarmRequest / GetWithTimeout,     *)
(*                 stepped attempt by attempt over every pool, every       *)
(*                 permutation and every timeout within the bounds.        *)
(***************************************************************************)
EXTENDS Integers, Sequences, FiniteSets, TLC

(* ------------------------------ bounds -------------------------------- *)

\* jobs the coordinator hands out before it stops answering "ok"
MaxJobs == 2
\* config.Timeout in seconds (any positive value; 60 when unset)
Timeout == 6
\* len(experimentManagers), at least 1 (checked at line 338)
NumEM == 1
\* longest time one next_simulation dispatch is taken to last, in seconds
MaxReqTime == 1
\* DispatchSpec: largest endpoint pool
MaxPool == 2
\* DispatchSpec: largest timeout handed to ExecuteScalarmRequest
MaxTimeout == 3
\* DispatchSpec: longest a failing client.Do is taken to last, in seconds
MaxDoTime == 1

(* ------------------------- program constants -------------------------- *)

\* make(chan struct{}, 1)
ChanCap == 1
\* time.Sleep(5 * time.Second) between acquisition attempts
RetrySleep == 5
\* time.Sleep(1 * time.Second) between attempts on one endpoint
DoBackoff == 1
\* os.Exit codes
ExitOk == 0
ExitFatal == 1
\* exit status of a Go program that dies of a runtime panic
ExitPanic == 2
\* the process is still running
Running == -1
\* cwd value of the root directory (job directories are 1..MaxJobs)
RootDir == 0

Jobs == 1..MaxJobs

VARIABLES
    pc,                   \* position of the main flow in main()
    exitCode,             \* Running, or the code the process exited with
    exitCause,            \* which statement ended the process
    nJobs,                \* jobs acquired so far; the next job id is nJobs+1
    cur,                  \* simulation_index of the job in the pipeline, 0 if none
    cwd,                  \* process working directory: RootDir or a job id
    elapsed,              \* time.Now() - communicationStart in the acquisition loop
    resp,                 \* nextSimulationBody as last received
    wait,                 \* local 'wait' of the main loop
    nextSimulationFailed, \* local 'nextSimulationFailed' of the main loop
    acted,                \* what the main loop did with the last response
    allSentSeen,          \* history: a next_simulation response said all_sent
    result,               \* simulationRunResults of the current job, with the file state found
    intermediateResults,  \* what each monitor's last read of intermediate_result.json gave
    logTail,              \* PrintStdoutLog() has printed the tail of _stdout.txt
    mon,                  \* position of each job's IntermediateMonitoring goroutine
    messages,             \* each job's 'messages' channel
    finished,             \* each job's 'finished' channel
    cleanup,              \* position of each job's cleanup goroutine
    dirExists,            \* each job's working directory exists
    markStarted,          \* history: mark_as_complete dispatch for the job has started
    dPool, dPerm, dTimeout, dIdx, dPc, dElapsed, dResult, dFrom,
    dAttempts, dLastStart, dSpent

mvars == <<pc, exitCode, exitCause, nJobs, cur, cwd, elapsed, resp, wait,
           nextSimulationFailed, acted, allSentSeen, result, intermediateResults, logTail, mon, messages, finished, cleanup, dirExists, markStarted>>
dvars == <<dPool, dPerm, dTimeout, dIdx, dPc, dElapsed, dResult, dFrom,
           dAttempts, dLastStart, dSpent>>
vars == <<mvars, dvars>>

(* ------------------------------ channels ------------------------------ *)

\* a channel: the values buffered, whether it is closed, and the history of
\* how many sends and how many close calls it has had
NewChan == [buf |-> 0, closed |-> FALSE, sends |-> 0, closes |-> 0]
\* faulty variant: the channels have no buffer, a send waits for its receiver
CanSend_Unbuffered(ch) == ch.buf < ChanCap - 1

\* ch <- v proceeds when the buffer has room (a send on a closed channel panics)
CanSend(ch) == ch.buf < ChanCap
ChSend(ch) == [ch EXCEPT !.buf = @ + 1, !.sends = @ + 1]
\* <-ch proceeds on a buffered value, or at once on a closed channel
CanRecv(ch) == ch.buf > 0 \/ ch.closed
ChRecv(ch) == [ch EXCEPT !.buf = IF @ > 0 THEN @ - 1 ELSE 0]
ChClose(ch) == [ch EXCEPT !.closed = TRUE, !.closes = @ + 1]

(* --------------------------- process exit ----------------------------- *)

Alive == exitCode = Running

\* os.Exit(code): every goroutine stops where it is
Exit(code, cause) ==
    /\ exitCode' = code
    /\ exitCause' = cause
    /\ UNCHANGED <<pc, nJobs, cur, cwd, elapsed, resp, wait, nextSimulationFailed,
                   acted, allSentSeen, result, intermediateResults, logTail, mon, messages, finished,
                   cleanup, dirExists, markStarted>>

\* faulty variant: a failed adapter ends the process with status 0
AdapterExit_Zero == ExitOk

\* os.Exit(1) after a failed adapter (lines 202, 503, 523, 541)
AdapterExit == ExitFatal

\* an adapter's Run() returned an error: PrintStdoutLog(), then os.Exit(1)
AdapterFailed(cause) ==
    /\ exitCode' = AdapterExit
    /\ exitCause' = cause
    /\ logTail' = TRUE
    /\ UNCHANGED <<pc, nJobs, cur, cwd, elapsed, resp, wait, nextSimulationFailed,
                   acted, allSentSeen, result, intermediateResults, mon, messages,
                   finished, cleanup, dirExists, markStarted>>

\* outcome of one ExecuteScalarmRequest call as its caller sees it:
\* a body is returned (line 144) or Fatal ends the process (line 148)
DispatchOutcomes == {"returned", "fatal"}

(* ------------------------------- Init --------------------------------- *)

\* the dispatcher variables are not used by Spec
DispatcherIdle ==
    /\ dPool = <<>> /\ dPerm = <<>> /\ dTimeout = 0 /\ dIdx = 0
    /\ dPc = "idle" /\ dElapsed = 0 /\ dResult = "none" /\ dFrom = 0
    /\ dAttempts = <<>> /\ dLastStart = <<>> /\ dSpent = <<>>

\* new(SimulationRunResults) not yet filled from a file
NoResult == [file |-> "none", status |-> "none", reason |-> "none"]

\* a monitor's intermediateResults before the read of an iteration
NotRead == [file |-> "none", status |-> "none"]

\* the state at the top of the main loop, after start-up (steps 0 to 3)
MainInit ==
    /\ pc = "loopTop"
    /\ exitCode = Running
    /\ exitCause = "none"
    /\ nJobs = 0
    /\ cur = 0
    /\ cwd = RootDir
    /\ elapsed = 0
    /\ resp = "none"
    /\ wait = FALSE
    /\ nextSimulationFailed = TRUE
    /\ acted = "none"
    /\ allSentSeen = FALSE
    /\ result = NoResult
    /\ intermediateResults = [j \in Jobs |-> NotRead]
    /\ logTail = FALSE
    /\ mon = [j \in Jobs |-> "idle"]
    /\ messages = [j \in Jobs |-> NewChan]
    /\ finished = [j \in Jobs |-> NewChan]
    /\ cleanup = [j \in Jobs |-> "idle"]
    /\ dirExists = [j \in Jobs |-> FALSE]
    /\ markStarted = [j \in Jobs |-> FALSE]

Init == MainInit /\ DispatcherIdle

(* ------------------- main(): job acquisition loop --------------------- *)

\* what a next_simulation body can be
Responses == {"ok", "ok_noid", "wait", "wait_nodur", "all_sent", "error",
              "other", "nostatus", "undecodable"}

\* communicationTimeout * time.Duration(len(experimentManagers))
Budget == Timeout * NumEM

\* faulty variant: the loop tests 'not before' instead of 'after'
WithinBudget_Inclusive == elapsed <= Budget

\* communicationStart.Add(budget).After(time.Now())
WithinBudget == elapsed < Budget

\* top of 'for {': fresh locals, communicationStart := time.Now()
LoopTop ==
    /\ Alive /\ pc = "loopTop"
    /\ pc' = "acqLoop"
    /\ nextSimulationFailed' = TRUE
    /\ wait' = FALSE
    /\ resp' = "none"
    /\ acted' = "none"
    /\ elapsed' = 0
    /\ UNCHANGED <<exitCode, exitCause, nJobs, cur, cwd, allSentSeen, result, intermediateResults, logTail, mon,
                   messages, finished, cleanup, dirExists, markStarted>>
    /\ UNCHANGED dvars

\* one next_simulation dispatch inside the retry loop
GetNextSimulation ==
    /\ Alive /\ pc = "acqLoop" /\ WithinBudget
    /\ \E o \in DispatchOutcomes :
         \/ /\ o = "fatal"
            /\ Exit(ExitFatal, "dispatch:next_simulation")
         \/ /\ o = "returned"
            /\ \E r \in Responses, d \in 0..MaxReqTime :
                 /\ r \in {"ok", "ok_noid"} => nJobs < MaxJobs
                 /\ resp' = r
                 /\ elapsed' = elapsed + d
                 /\ allSentSeen' = (allSentSeen \/ r = "all_sent")
            /\ pc' = "classify"
            /\ acted' = "none"
            /\ UNCHANGED <<exitCode, exitCause, nJobs, cur, cwd, wait,
                           nextSimulationFailed, result, intermediateResults, logTail, mon, messages,
                           finished, cleanup, dirExists, markStarted>>
    /\ UNCHANGED dvars

\* the retry loop's condition fails: the budget is used up
AcqTimeout ==
    /\ Alive /\ pc = "acqLoop" /\ ~WithinBudget
    /\ pc' = "afterLoop"
    /\ UNCHANGED <<exitCode, exitCause, nJobs, cur, cwd, elapsed, resp, wait,
                   nextSimulationFailed, acted, allSentSeen, result, intermediateResults, logTail, mon, messages, finished, cleanup, dirExists, markStarted>>
    /\ UNCHANGED dvars

\* faulty variant: a wait response falls through to the retry sleep
Branch_WaitRetries(r) ==
    CASE r \in {"undecodable", "all_sent", "error", "other", "wait", "wait_nodur"} -> "retry"
      [] r = "nostatus" -> "panic"
      [] OTHER -> "ok"

\* the branch of lines 426-449 a response takes:
\* "panic" (the type assertion on an absent status), "retry" (fall through to
\* the sleep), "wait" (wait = true; break), "ok" (nextSimulationFailed = false; break)
Branch(r) ==
    CASE r = "undecodable" -> "retry"
      [] r = "nostatus" -> "panic"
      [] r = "all_sent" -> "retry"
      [] r = "error" -> "retry"
      [] r \in {"wait", "wait_nodur"} -> "wait"
      [] r = "other" -> "retry"
      [] OTHER -> "ok"

\* json.Unmarshal and the status chain, up to the sleep or the break
Classify ==
    /\ Alive /\ pc = "classify"
    /\ \/ /\ Branch(resp) = "panic"
          /\ acted' = "panic"
          /\ exitCode' = ExitPanic
          /\ exitCause' = "panic:status"
          /\ UNCHANGED <<pc, elapsed, wait, nextSimulationFailed>>
       \/ /\ Branch(resp) = "retry"
          /\ acted' = "retrySleep"
          /\ elapsed' = elapsed + RetrySleep
          /\ pc' = "acqLoop"
          /\ UNCHANGED <<exitCode, exitCause, wait, nextSimulationFailed>>
       \/ /\ Branch(resp) = "wait"
          /\ wait' = TRUE
          /\ pc' = "afterLoop"
          /\ UNCHANGED <<exitCode, exitCause, elapsed, nextSimulationFailed, acted>>
       \/ /\ Branch(resp) = "ok"
          /\ nextSimulationFailed' = FALSE
          /\ pc' = "afterLoop"
          /\ UNCHANGED <<exitCode, exitCause, elapsed, wait, acted>>
    /\ UNCHANGED <<nJobs, cur, cwd, resp, allSentSeen, result, intermediateResults, logTail, mon, messages, finished, cleanup, dirExists, markStarted>>
    /\ UNCHANGED dvars

\* lines 451-459: sleep on wait, exit 0 when no job was obtained, else go on
AfterLoop ==
    /\ Alive /\ pc = "afterLoop"
    /\ \/ /\ wait /\ resp = "wait_nodur"
          /\ acted' = "panic"
          /\ exitCode' = ExitPanic
          /\ exitCause' = "panic:duration_in_seconds"
          /\ UNCHANGED <<pc, elapsed>>
       \/ /\ wait /\ resp # "wait_nodur"
          /\ acted' = "waitSleep"
          /\ pc' = "waitSleep"
          /\ elapsed' = 0
          /\ UNCHANGED <<exitCode, exitCause>>
       \/ /\ ~wait /\ nextSimulationFailed
          /\ acted' = "exit0"
          /\ exitCode' = ExitOk
          /\ exitCause' = "acquisition"
          /\ UNCHANGED <<pc, elapsed>>
       \/ /\ ~wait /\ ~nextSimulationFailed
          /\ pc' = "prepare"
          /\ elapsed' = 0
          /\ UNCHANGED <<exitCode, exitCause, acted>>
    /\ UNCHANGED <<nJobs, cur, cwd, resp, wait, nextSimulationFailed, allSentSeen,
                   result, intermediateResults, logTail, mon, messages, finished, cleanup, dirExists,
                   markStarted>>
    /\ UNCHANGED dvars

\* time.Sleep(duration_in_seconds) is over; 'continue'
WaitSleepDone ==
    /\ Alive /\ pc = "waitSleep"
    /\ pc' = "loopTop"
    /\ UNCHANGED <<exitCode, exitCause, nJobs, cur, cwd, elapsed, resp, wait,
                   nextSimulationFailed, acted, allSentSeen, result, intermediateResults, logTail, mon, messages, finished, cleanup, dirExists, markStarted>>
    /\ UNCHANGED dvars


(* ------------------- main(): the pipeline of one job ------------------ *)

\* the main flow moves on and nothing else changes
Goto(next) ==
    /\ pc' = next
    /\ UNCHANGED <<exitCode, exitCause, nJobs, cur, cwd, elapsed, resp, wait,
                   nextSimulationFailed, acted, allSentSeen, result, intermediateResults, logTail, mon, messages, finished, cleanup, dirExists, markStarted>>

\* lines 461-490: simulation_index, MkdirAll, input.json, Chdir into the job's
\* directory; the coordinator is taken to hand out every simulation_id once
Prepare ==
    /\ Alive /\ pc = "prepare"
    /\ \/ /\ resp = "ok_noid"
          /\ acted' = "panic"
          /\ exitCode' = ExitPanic
          /\ exitCause' = "panic:simulation_id"
          /\ UNCHANGED <<pc, nJobs, cur, cwd, dirExists>>
       \/ /\ resp # "ok_noid"
          /\ acted' = "proceed"
          /\ nJobs' = nJobs + 1
          /\ cur' = nJobs + 1
          /\ dirExists' = [dirExists EXCEPT ![nJobs + 1] = TRUE]
          /\ \/ /\ cwd' = nJobs + 1
                /\ pc' = "inputWriter"
                /\ UNCHANGED <<exitCode, exitCause>>
             \/ /\ exitCode' = ExitFatal
                /\ exitCause' = "fs:prepare"
                /\ UNCHANGED <<pc, cwd>>
    /\ UNCHANGED <<elapsed, resp, wait, nextSimulationFailed, allSentSeen, result, intermediateResults, logTail,
                   mon, messages, finished, cleanup, markStarted>>
    /\ UNCHANGED dvars

\* faulty variant: the executor is next, the monitor is not started before it
InputWriter_ThenExecutor ==
    /\ Alive /\ pc = "inputWriter"
    /\ Goto("executor")
    /\ UNCHANGED dvars

\* 4b: the optional input_writer; a non-zero exit is fatal
InputWriter ==
    /\ Alive /\ pc = "inputWriter"
    /\ \/ Goto("startMonitor")
       \/ AdapterFailed("adapter:input_writer")
    /\ UNCHANGED dvars

\* 4c.1: make both channels, go IntermediateMonitoring(...)
StartMonitor ==
    /\ Alive /\ pc = "startMonitor"
    /\ messages' = [messages EXCEPT ![cur] = NewChan]
    /\ finished' = [finished EXCEPT ![cur] = NewChan]
    /\ mon' = [mon EXCEPT ![cur] = "stat"]
    /\ pc' = "executor"
    /\ UNCHANGED <<exitCode, exitCause, nJobs, cur, cwd, elapsed, resp, wait,
                   nextSimulationFailed, acted, allSentSeen, result, intermediateResults, logTail, cleanup, dirExists, markStarted>>
    /\ UNCHANGED dvars

\* 4c: the executor; a non-zero exit is fatal
Executor ==
    /\ Alive /\ pc = "executor"
    /\ \/ Goto("stop")
       \/ AdapterFailed("adapter:executor")
    /\ UNCHANGED dvars

\* faulty variant: the main flow goes on without the stop signal
StopMonitor_NoSignal ==
    /\ Alive /\ pc = "stop"
    /\ Goto("outputReader")
    /\ UNCHANGED dvars

\* messages <- struct{}{}; close(messages): the main flow does not wait here
StopMonitor ==
    /\ Alive /\ pc = "stop"
    /\ CanSend(messages[cur])
    /\ messages' = [messages EXCEPT ![cur] = ChClose(ChSend(@))]
    /\ pc' = "outputReader"
    /\ UNCHANGED <<exitCode, exitCause, nJobs, cur, cwd, elapsed, resp, wait,
                   nextSimulationFailed, acted, allSentSeen, result, intermediateResults, logTail, mon, finished, cleanup, dirExists, markStarted>>
    /\ UNCHANGED dvars

\* 4d: the optional output_reader; a non-zero exit is fatal
OutputReader ==
    /\ Alive /\ pc = "outputReader"
    /\ \/ Goto("readOutput")
       \/ AdapterFailed("adapter:output_reader")
    /\ UNCHANGED dvars

\* what reading a result file can find
FileStates == {"ok", "error_status", "absent", "unopenable", "unparsable"}

\* faulty variant: the decoder's error is ignored
ResultStatus_TrustsFile(f) == IF f \in {"ok", "unparsable"} THEN "ok" ELSE "error"

\* the Status a result file leaves in SimulationRunResults (lines 207-226, 549-568)
ResultStatus(f) == IF f = "ok" THEN "ok" ELSE "error"

\* the Reason a result file leaves: the three failures to read it each put
\* a message with the file's name, otherwise it is what the file holds
ResultReason(f, name) ==
    CASE f = "absent" -> <<"No file found", name>>
      [] f = "unopenable" -> <<"Could not open", name>>
      [] f = "unparsable" -> <<"Error during parsing", name>>
      [] OTHER -> <<"from", "file">>

\* the SimulationRunResults after the read of the file 'name' found it in state f
ReadResult(f, name) ==
    [file |-> f, status |-> ResultStatus(f), reason |-> ResultReason(f, name)]

\* 4e: read output.json in the working directory
ReadOutput ==
    /\ Alive /\ pc = "readOutput"
    /\ \E f \in FileStates : result' = ReadResult(f, "output.json")
    /\ pc' = "markComplete"
    /\ UNCHANGED <<exitCode, exitCause, nJobs, cur, cwd, elapsed, resp, wait,
                   nextSimulationFailed, acted, allSentSeen, intermediateResults, logTail, mon, messages, finished, cleanup, dirExists, markStarted>>
    /\ UNCHANGED dvars

\* 4f: the mark_as_complete dispatch is issued
MarkAsComplete ==
    /\ Alive /\ pc = "markComplete"
    /\ markStarted' = [markStarted EXCEPT ![cur] = TRUE]
    /\ pc' = "markInFlight"
    /\ UNCHANGED <<exitCode, exitCause, nJobs, cur, cwd, elapsed, resp, wait,
                   nextSimulationFailed, acted, allSentSeen, result, intermediateResults, logTail, mon, messages, finished, cleanup, dirExists>>
    /\ UNCHANGED dvars

\* the mark_as_complete dispatch returns a body or is fatal; nothing reads
\* simulationRunResults after it
MarkAsCompleteReturn ==
    /\ Alive /\ pc = "markInFlight"
    /\ \E o \in DispatchOutcomes :
         \/ /\ o = "returned"
            /\ pc' = "uploadBinary"
            /\ result' = NoResult
            /\ UNCHANGED <<exitCode, exitCause, nJobs, cur, cwd, elapsed, resp, wait,
                           nextSimulationFailed, acted, allSentSeen,
                           intermediateResults, logTail, mon, messages, finished,
                           cleanup, dirExists, markStarted>>
         \/ o = "fatal" /\ Exit(ExitFatal, "dispatch:mark_as_complete")
    /\ UNCHANGED dvars

\* 4g: upload output.tar.gz to the storage managers if it exists
UploadBinary ==
    /\ Alive /\ pc = "uploadBinary"
    /\ \/ Goto("uploadStdout")
       \/ Exit(ExitFatal, "dispatch:binary_upload")
    /\ UNCHANGED dvars

\* 4h: upload _stdout.txt to the storage managers if it exists
UploadStdout ==
    /\ Alive /\ pc = "uploadStdout"
    /\ \/ Goto("spawnCleanup")
       \/ Exit(ExitFatal, "dispatch:stdout_upload")
    /\ UNCHANGED dvars

\* 5: go func() { select { case <-finished: ... } }()
SpawnCleanup ==
    /\ Alive /\ pc = "spawnCleanup"
    /\ cleanup' = [cleanup EXCEPT ![cur] = "waiting"]
    /\ pc' = "chdirRoot"
    /\ UNCHANGED <<exitCode, exitCause, nJobs, cur, cwd, elapsed, resp, wait,
                   nextSimulationFailed, acted, allSentSeen, result, intermediateResults, logTail, mon, messages, finished, dirExists, markStarted>>
    /\ UNCHANGED dvars

\* faulty variant: the main loop goes round without rootDir.Chdir()
ChdirRoot_Stays ==
    /\ Alive /\ pc = "chdirRoot"
    /\ cur' = 0
    /\ pc' = "loopTop"
    /\ UNCHANGED <<exitCode, exitCause, cwd, nJobs, elapsed, resp, wait,
                   nextSimulationFailed, acted, allSentSeen, result,
                   intermediateResults, logTail, mon, messages, finished, cleanup,
                   dirExists, markStarted>>
    /\ UNCHANGED dvars

\* 6: rootDir.Chdir(), then the next iteration of the main loop
ChdirRoot ==
    /\ Alive /\ pc = "chdirRoot"
    /\ \/ /\ cwd' = RootDir
          /\ cur' = 0
          /\ pc' = "loopTop"
          /\ UNCHANGED <<exitCode, exitCause>>
       \/ /\ exitCode' = ExitFatal
          /\ exitCause' = "fs:chdir"
          /\ UNCHANGED <<pc, cur, cwd>>
    /\ UNCHANGED <<nJobs, elapsed, resp, wait, nextSimulationFailed, acted,
                   allSentSeen, result, intermediateResults, logTail, mon, messages,
                   finished, cleanup, dirExists, markStarted>>
    /\ UNCHANGED dvars

(* ------------- the cleanup goroutine of one job (647-654) ------------- *)

\* faulty variant: the cleanup does not wait for the acknowledgment
CleanupGate_NoWait(j) == cleanup[j] = "waiting"

\* case <-finished: what the select waits for before it removes the directory
CleanupGate(j) == CanRecv(finished[j])

\* os.RemoveAll(simulationDirPath); close(finished)
Cleanup(j) ==
    /\ Alive /\ cleanup[j] = "waiting"
    /\ CleanupGate(j)
    /\ finished' = [finished EXCEPT ![j] = ChClose(ChRecv(@))]
    /\ dirExists' = [dirExists EXCEPT ![j] = FALSE]
    /\ cleanup' = [cleanup EXCEPT ![j] = "done"]
    /\ UNCHANGED <<pc, exitCode, exitCause, nJobs, cur, cwd, elapsed, resp, wait,
                   nextSimulationFailed, acted, allSentSeen, result, intermediateResults, logTail, mon, messages, markStarted>>
    /\ UNCHANGED dvars

(* --------------- IntermediateMonitoring of one job (186-259) ---------- *)

\* the monitor moves on and nothing else changes
MonGoto(j, next) ==
    /\ mon' = [mon EXCEPT ![j] = next]
    /\ UNCHANGED <<pc, exitCode, exitCause, nJobs, cur, cwd, elapsed, resp, wait,
                   nextSimulationFailed, acted, allSentSeen, result, intermediateResults, logTail, messages, finished, cleanup, dirExists, markStarted>>

\* faulty variant: the monitor closes 'finished' after its acknowledgment
MonAcknowledge_Closes(j) ==
    /\ CanSend(finished[j])
    /\ finished' = [finished EXCEPT ![j] = ChClose(ChSend(@))]
    /\ mon' = [mon EXCEPT ![j] = "returned"]

\* finished <- struct{}{} and the monitor is over
MonAcknowledge(j) ==
    /\ CanSend(finished[j])
    /\ finished' = [finished EXCEPT ![j] = ChSend(@)]
    /\ mon' = [mon EXCEPT ![j] = "returned"]

\* os.Stat(progress_monitor): without the adapter, acknowledge at once
MonStat(j) ==
    /\ Alive /\ mon[j] = "stat"
    /\ \/ MonGoto(j, "adapter")
       \/ /\ MonAcknowledge(j)
          /\ UNCHANGED <<pc, exitCode, exitCause, nJobs, cur, cwd, elapsed, resp,
                         wait, nextSimulationFailed, acted, allSentSeen, result, intermediateResults, logTail,
                         messages, cleanup, dirExists, markStarted>>
    /\ UNCHANGED dvars

\* faulty variant: a pending stop signal is taken while the adapter runs
MonAdapter_Interruptible(j) ==
    /\ Alive /\ mon[j] = "adapter"
    /\ \/ /\ CanRecv(messages[j])
          /\ messages' = [messages EXCEPT ![j] = ChRecv(@)]
          /\ MonAcknowledge(j)
          /\ UNCHANGED <<pc, exitCode, exitCause, nJobs, cur, cwd, elapsed, resp,
                         wait, nextSimulationFailed, acted, allSentSeen, result,
                         intermediateResults, logTail, cleanup, dirExists,
                         markStarted>>
       \/ /\ ~CanRecv(messages[j])
          /\ MonGoto(j, "read")
    /\ UNCHANGED dvars

\* progressMonitorCmd.Run(); a non-zero exit ends the process
MonAdapter(j) ==
    /\ Alive /\ mon[j] = "adapter"
    /\ \/ /\ mon' = [mon EXCEPT ![j] = "read"]
          /\ UNCHANGED <<pc, exitCode, exitCause, nJobs, cur, cwd, elapsed, resp,
                         wait, nextSimulationFailed, acted, allSentSeen, result, intermediateResults, logTail,
                         messages, finished, cleanup, dirExists, markStarted>>
       \/ AdapterFailed("adapter:progress_monitor")
    /\ UNCHANGED dvars

\* the three ways the read of a result file fails (lines 207-222)
Unreadable == {"absent", "unopenable", "unparsable"}

\* the monitor's intermediateResults after the read found the file in state
\* f; the three failures are kept as one, and the Reason is left out, which
\* nothing reads unless the Status is ok
IntermediateResult(f) ==
    [file |-> IF f \in Unreadable THEN "unreadable" ELSE f,
     status |-> ResultStatus(f)]

\* faulty variant: every intermediate result is reported
Reported_Always(r) == r.status # "none"

\* if intermediateResults.Status == "ok": the result goes out as progress_info
Reported(r) == r.status = "ok"

\* read "intermediate_result.json", a path relative to the process working
\* directory; status ok leads to the progress_info dispatch
MonRead(j) ==
    /\ Alive /\ mon[j] = "read"
    /\ \E f \in FileStates :
         LET r == IntermediateResult(f) IN
           /\ intermediateResults' = [intermediateResults EXCEPT ![j] = r]
           /\ mon' = [mon EXCEPT ![j] = IF Reported(r) THEN "report" ELSE "sleep"]
    /\ UNCHANGED <<pc, exitCode, exitCause, nJobs, cur, cwd, elapsed, resp, wait,
                   nextSimulationFailed, acted, allSentSeen, result, logTail, messages, finished, cleanup, dirExists, markStarted>>
    /\ UNCHANGED dvars

\* the progress_info dispatch returns a body or is fatal
MonReport(j) ==
    /\ Alive /\ mon[j] = "report"
    /\ \E o \in DispatchOutcomes :
         \/ o = "returned" /\ MonGoto(j, "sleep")
         \/ o = "fatal" /\ Exit(ExitFatal, "dispatch:progress_info")
    /\ UNCHANGED dvars

\* faulty variant: the 'return' after the acknowledgment is missing
AfterAck_NoReturn == "adapter"

\* where the monitor goes after it has acknowledged the stop signal: return
AfterAck == "returned"

\* time.Sleep(10 * time.Second), then
\* select { case <-messages: acknowledge and return; default: next iteration };
\* either way this iteration's intermediateResults is gone
MonSelect(j) ==
    /\ Alive /\ mon[j] = "sleep"
    /\ \/ /\ CanRecv(messages[j])
          /\ messages' = [messages EXCEPT ![j] = ChRecv(@)]
          /\ CanSend(finished[j])
          /\ finished' = [finished EXCEPT ![j] = ChSend(@)]
          /\ mon' = [mon EXCEPT ![j] = AfterAck]
       \/ /\ ~CanRecv(messages[j])
          /\ mon' = [mon EXCEPT ![j] = "adapter"]
          /\ UNCHANGED <<messages, finished>>
    /\ intermediateResults' = [intermediateResults EXCEPT ![j] = NotRead]
    /\ UNCHANGED <<pc, exitCode, exitCause, nJobs, cur, cwd, elapsed, resp, wait,
                   nextSimulationFailed, acted, allSentSeen, result, logTail, cleanup,
                   dirExists, markStarted>>
    /\ UNCHANGED dvars

(* --------------------------- specification ---------------------------- *)

Next ==
    \/ LoopTop
    \/ GetNextSimulation
    \/ AcqTimeout
    \/ Classify
    \/ AfterLoop
    \/ WaitSleepDone
    \/ Prepare
    \/ InputWriter
    \/ StartMonitor
    \/ Executor
    \/ StopMonitor
    \/ OutputReader
    \/ ReadOutput
    \/ MarkAsComplete
    \/ MarkAsCompleteReturn
    \/ UploadBinary
    \/ UploadStdout
    \/ SpawnCleanup
    \/ ChdirRoot
    \/ \E j \in Jobs : Cleanup(j)
    \/ \E j \in Jobs : MonStat(j)
    \/ \E j \in Jobs : MonAdapter(j)
    \/ \E j \in Jobs : MonRead(j)
    \/ \E j \in Jobs : MonReport(j)
    \/ \E j \in Jobs : MonSelect(j)

Spec == Init /\ [][Next]_vars

\* the steps of the main goroutine
MainFlow ==
    \/ LoopTop \/ GetNextSimulation \/ AcqTimeout \/ Classify \/ AfterLoop
    \/ WaitSleepDone \/ Prepare \/ InputWriter \/ StartMonitor \/ Executor
    \/ StopMonitor \/ OutputReader \/ ReadOutput \/ MarkAsComplete
    \/ MarkAsCompleteReturn \/ UploadBinary \/ UploadStdout \/ SpawnCleanup
    \/ ChdirRoot

\* the steps of the IntermediateMonitoring goroutine of job j
Monitor(j) ==
    MonStat(j) \/ MonAdapter(j) \/ MonRead(j) \/ MonReport(j) \/ MonSelect(j)

\* the Go scheduler runs every goroutine that can run, every sleep ends, and
\* every adapter run and every dispatch comes back (or ends the process)
Fairness ==
    /\ WF_vars(MainFlow)
    /\ \A j \in Jobs : WF_vars(Monitor(j))
    /\ \A j \in Jobs : WF_vars(Cleanup(j))

LiveSpec == Spec /\ Fairness


(* ------------------------- claims under Spec -------------------------- *)

\* the monitor of job j has been started and has not returned
MonRunning(j) == mon[j] \notin {"idle", "returned"}
\* the stop signal for job j has been sent on 'messages'
StopSent(j) == messages[j].sends >= 1
\* the monitor of job j has sent its acknowledgment on 'finished'
AckSent(j) == finished[j].sends >= 1
\* the main flow is past the stop signal of the current job
PastStop == pc \in {"outputReader", "readOutput", "markComplete", "markInFlight",
                    "uploadBinary", "uploadStdout", "spawnCleanup", "chdirRoot"}

\* C1: the working directory of a job is removed only after the job's monitor
\* has sent its acknowledgment on 'finished' and has returned, and only after
\* the main flow has sent the job's stop signal, with or without an adapter.
C1_CleanupAfterAck ==
    \A j \in Jobs :
        cleanup[j] = "done" => (AckSent(j) /\ StopSent(j) /\ mon[j] = "returned")

\* C1 witness: both directories are removed, job 1 after a monitor that took
\* the stop signal (adapter present), job 2 after one that never looked at it
\* (no adapter).
C1_Witness ==
    /\ cleanup[1] = "done" /\ ~dirExists[1] /\ messages[1].buf = 0
    /\ cleanup[2] = "done" /\ ~dirExists[2] /\ messages[2].buf = 1

\* C2: after the stop signal the main flow goes on to output-transform and
\* reporting only once the monitor has acknowledged, and no progress_info
\* dispatch of a job is issued after the job's mark_as_complete dispatch started.
C2_BlocksUntilAck ==
    /\ [](PastStop => AckSent(cur))
    /\ [][\A j \in Jobs :
            (mon[j] = "read" /\ mon'[j] = "report") => ~markStarted[j]]_vars

\* C3: no two monitors run at once, and a next_simulation request is issued
\* only when the monitor of every earlier job has acknowledged.
C3_OneActiveJob ==
    /\ \A j, k \in Jobs : (MonRunning(j) /\ MonRunning(k)) => j = k
    /\ pc = "classify" => \A j \in 1..nJobs : AckSent(j)

\* C4: once a monitor has sent on 'finished' it has returned: it is at no
\* adapter run, no read and no progress_info dispatch, ever after.
C4_SilentAfterAck ==
    \A j \in Jobs : AckSent(j) => mon[j] = "returned"

\* C4 witness: a monitor with an adapter took the stop signal and acknowledged.
C4_Witness ==
    \E j \in Jobs : AckSent(j) /\ StopSent(j) /\ messages[j].buf = 0

\* C5: whenever the monitor of job j reads intermediate_result.json, the
\* process working directory is job j's directory.
C5_ReadsOwnDirectory ==
    [][\A j \in Jobs :
         (mon[j] = "read" /\ mon'[j] \in {"report", "sleep"}) => cwd = j]_vars

\* C6: a progress_info dispatch that finds no endpoint reachable does not end
\* the process.
C6_ProgressFailureNotFatal ==
    ~(exitCode # Running /\ exitCause = "dispatch:progress_info")

\* C7: after an all_sent response the main flow issues no next_simulation and
\* no mark_as_complete request, and when it ends the process the code is 0.
C7_AllSentStops ==
    [][allSentSeen =>
         /\ ~(pc = "acqLoop" /\ pc' = "classify")
         /\ ~(pc = "markComplete" /\ pc' = "markInFlight")
         /\ (exitCode' # exitCode /\ exitCause' \notin
                {"adapter:progress_monitor", "dispatch:progress_info"})
              => exitCode' = ExitOk]_vars

\* the one action the specification documents for a next_simulation response
Documented(r) ==
    CASE r \in {"ok", "ok_noid"} -> {"proceed"}
      [] r \in {"wait", "wait_nodur"} -> {"waitSleep"}
      [] r = "all_sent" -> {"exit0"}
      [] OTHER -> {"retrySleep", "exit0"}

\* C10: whatever the main flow does with a next_simulation response is the
\* documented action for it: proceed on ok, sleep on wait, exit 0 on all_sent,
\* retry (and exit once the budget is used up) on anything else; never a crash.
C10_ClassificationTotal ==
    acted # "none" => acted \in Documented(resp)

\* the last next_simulation response had status wait
WaitResp == resp \in {"wait", "wait_nodur"}

\* C11: a wait response leaves the retry loop at once, without the retry sleep;
\* one that carries its duration is followed by the sleep of that duration and
\* then by the top of the main loop, where the budget starts afresh; from the
\* wait response to the end of the sleep no next_simulation request is issued
\* and no job is started.
C11_WaitAuthoritative ==
    /\ [](wait => (WaitResp /\ pc \in {"afterLoop", "waitSleep", "loopTop"}))
    /\ [][/\ (pc = "classify" /\ WaitResp) =>
               /\ pc' \in {"classify", "afterLoop"}
               /\ pc' = "afterLoop" => wait'
               /\ elapsed' = elapsed
          /\ (pc = "afterLoop" /\ wait) =>
               /\ pc' \in {"afterLoop", "waitSleep"}
               /\ (resp = "wait" /\ acted' # acted) => pc' = "waitSleep"
          /\ pc = "waitSleep" => (wait /\ pc' \in {"waitSleep", "loopTop"})
          /\ (pc = "loopTop" /\ pc' # pc) =>
               (pc' = "acqLoop" /\ elapsed' = 0 /\ nextSimulationFailed' /\ ~wait')
          /\ (pc = "acqLoop" /\ pc' = "classify") => ~wait
          /\ nJobs' # nJobs => ~wait]_vars

\* C11 witness: the sleep that a wait response asked for is over and the main
\* flow is back at the top of its loop, one job already done.
C11_Witness ==
    pc = "loopTop" /\ wait /\ resp = "wait" /\ acted = "waitSleep" /\ nJobs >= 1

\* the last next_simulation response is one the loop retries after: an error
\* status, an unrecognized status or a body that cannot be decoded
RetryResp == resp \in {"error", "other", "undecodable"}

\* C12: after an error status, an unrecognized status or an undecodable body
\* the loop sleeps the fixed interval and tries again; a request is issued only
\* while the elapsed time is below timeout * number of endpoints, so the
\* elapsed time stays bounded; when the loop ends on such a response the
\* process exits and no job is started.
C12_BoundedRetry ==
    /\ [](pc = "classify" => elapsed < Budget + MaxReqTime)
    /\ [](pc \in {"acqLoop", "afterLoop"} => elapsed < Budget + MaxReqTime + RetrySleep)
    /\ []((pc = "afterLoop" /\ RetryResp) => (nextSimulationFailed /\ ~wait))
    /\ [][/\ (pc = "acqLoop" /\ pc' = "classify") => elapsed < Budget
          /\ (pc = "acqLoop" /\ pc' = "afterLoop") => elapsed >= Budget
          /\ (pc = "classify" /\ RetryResp /\ pc' # pc) =>
               /\ pc' = "acqLoop"
               /\ elapsed' = elapsed + RetrySleep
               /\ nextSimulationFailed' /\ ~wait'
          /\ (pc = "afterLoop" /\ RetryResp) =>
               /\ pc' = pc /\ nJobs' = nJobs
               /\ acted' # acted => (exitCode' = ExitOk /\ acted' = "exit0")]_vars

\* C12 witness: the coordinator never said anything but error, the budget ran
\* out and the process has exited without a job.
C12_Witness ==
    /\ exitCause = "acquisition" /\ resp = "error" /\ acted = "exit0"
    /\ nJobs = 0 /\ ~allSentSeen /\ elapsed >= Budget

\* C13: when the executor and the output_reader have not failed and output.json
\* is absent, cannot be opened or cannot be parsed, the main flow goes on: the
\* result has status error and a reason that names output.json, and the next
\* step of the main flow is the mark_as_complete dispatch for the same job
\* with that result.
C13_BadOutputReported ==
    /\ []((pc \in {"markComplete", "markInFlight"} /\ result.file \in Unreadable) =>
            /\ cur \in Jobs
            /\ result.status = "error"
            /\ result.reason[2] = "output.json"
            /\ pc = "markInFlight" => markStarted[cur])
    /\ [][/\ (pc = "readOutput" /\ pc' # pc) =>
               /\ pc' = "markComplete"
               /\ exitCode' = exitCode
               /\ result'.file \in FileStates
          /\ (pc = "markComplete" /\ pc' # pc) =>
               /\ pc' = "markInFlight"
               /\ markStarted'[cur]
               /\ cur' = cur /\ result' = result]_vars

\* C13 witness: the mark_as_complete dispatch of a job without output.json is
\* under way.
C13_Witness ==
    /\ Alive /\ pc = "markInFlight" /\ cur = 1 /\ markStarted[1]
    /\ result.file = "absent" /\ result.status = "error"

\* C14: when the executor of a job fails the process is over with exit code 1
\* and the log tail printed, the mark_as_complete dispatch of that job has not
\* been started, and nothing happens after the exit: no dispatch at all.
C14_ExecutorFailureExits ==
    /\ [](exitCause = "adapter:executor" =>
            /\ exitCode = ExitFatal
            /\ logTail
            /\ pc = "executor"
            /\ cur \in Jobs /\ ~markStarted[cur])
    /\ [][~Alive => vars' = vars]_vars

\* C14 witness: the executor of the second job has failed.
C14_Witness ==
    exitCause = "adapter:executor" /\ cur = 2 /\ markStarted[1]

\* C15: in the main flow the steps of a job follow one another in one order:
\* input_writer, start of the monitor, executor, stop signal, output_reader,
\* read of output.json, mark_as_complete; so the monitor is not started while
\* the input_writer has not completed, the executor runs with the monitor
\* started, and mark_as_complete starts after the executor and the
\* output_reader have completed.
C15_PipelineOrder ==
    /\ [](cur \in Jobs =>
            /\ pc \in {"inputWriter", "startMonitor"} => mon[cur] = "idle"
            /\ pc \in {"executor", "stop"} => mon[cur] # "idle"
            /\ pc \in {"inputWriter", "startMonitor", "executor", "stop"} =>
                   ~StopSent(cur)
            /\ pc \in {"outputReader", "readOutput", "markComplete"} =>
                   (StopSent(cur) /\ ~markStarted[cur])
            /\ markStarted[cur] =>
                   pc \in {"markInFlight", "uploadBinary", "uploadStdout",
                           "spawnCleanup", "chdirRoot"})
    /\ [][pc' # pc =>
            /\ pc' = "startMonitor" => (pc = "inputWriter" /\ exitCode' = Running)
            /\ pc' = "executor" => pc = "startMonitor"
            /\ pc' = "stop" => (pc = "executor" /\ exitCode' = Running)
            /\ pc' = "outputReader" => pc = "stop"
            /\ pc' = "readOutput" => (pc = "outputReader" /\ exitCode' = Running)
            /\ pc' = "markComplete" => pc = "readOutput"
            /\ pc' = "markInFlight" => pc = "markComplete"]_vars

\* C15 witness: the second job has gone through every step up to its
\* mark_as_complete dispatch.
C15_Witness ==
    pc = "markInFlight" /\ cur = 2 /\ markStarted[2] /\ StopSent(2) /\ mon[2] # "idle"

\* the positions of the main flow between two jobs, and those inside a job
AcquisitionPcs == {"loopTop", "acqLoop", "classify", "afterLoop", "waitSleep", "prepare"}

\* C16: only a step of the main flow changes the working directory; it is the
\* job's directory at every pipeline step of the job and the root directory
\* throughout an acquisition, so at every next_simulation request, the ones
\* after a wait response included.
C16_WorkingDirectory ==
    /\ [](pc \in AcquisitionPcs => cwd = RootDir)
    /\ [](pc \notin AcquisitionPcs => (cur \in Jobs /\ cwd = cur))
    /\ [][/\ cwd' # cwd => pc' # pc
          /\ (pc = "acqLoop" /\ pc' = "classify") => cwd = RootDir]_vars

\* C16 witness: with one job done, a wait response has been slept on and the
\* main flow is back in the root directory for the next acquisition.
C16_Witness ==
    pc = "loopTop" /\ nJobs = 1 /\ cwd = RootDir /\ acted = "waitSleep" /\ ~dirExists[1]

\* the positions a monitor can move to from position a
MonSuccessors(a) ==
    CASE a = "idle" -> {"stat"}
      [] a = "stat" -> {"adapter", "returned"}
      [] a = "adapter" -> {"read"}
      [] a = "read" -> {"report", "sleep"}
      [] a = "report" -> {"sleep"}
      [] a = "sleep" -> {"adapter", "returned"}
      [] OTHER -> {}

\* C17: a monitor looks at 'messages' at one place only, after the sleep that
\* ends an iteration: it takes the stop signal there and nowhere else, goes
\* round again only if there is none, and a run of the adapter is always
\* followed by the read, whether or not the stop signal is pending; so a
\* monitor with an adapter acknowledges after a whole iteration at the least.
C17_CooperativeStop ==
    [][\A j \in Jobs :
         /\ mon'[j] # mon[j] => mon'[j] \in MonSuccessors(mon[j])
         /\ messages'[j].buf < messages[j].buf =>
               (mon[j] = "sleep" /\ mon'[j] = "returned")
         /\ (mon[j] = "sleep" /\ mon'[j] = "returned") =>
               (messages[j].buf > 0 \/ messages[j].closed)
         /\ (mon[j] = "sleep" /\ mon'[j] = "adapter") =>
               (messages[j].buf = 0 /\ ~messages[j].closed)
         /\ finished'[j].sends > finished[j].sends =>
               (mon[j] \in {"stat", "sleep"} /\ mon'[j] = "returned")]_vars

\* C17 witness: the adapter has completed its run with the stop signal
\* pending, and the monitor goes on to read the intermediate result.
C17_Witness ==
    \E j \in Jobs : Alive /\ mon[j] = "read" /\ messages[j].buf = 1 /\ pc = "outputReader"

\* C18: a monitor that finds no adapter can always send its acknowledgment,
\* in one step that runs no adapter, issues no progress_info and takes nothing
\* from 'messages'; the acknowledgment stays in the channel, where the job's
\* cleanup finds it once it is started.
C18_NoAdapterAcknowledges ==
    /\ [](\A j \in Jobs : (Alive /\ mon[j] = "stat") => ENABLED MonAcknowledge(j))
    /\ [](\A j \in Jobs : (mon[j] = "returned" /\ cleanup[j] # "done") =>
                              finished[j].buf = 1)
    /\ [](\A j \in Jobs : (Alive /\ mon[j] = "returned" /\ cleanup[j] = "waiting") =>
                              ENABLED Cleanup(j))
    /\ [][\A j \in Jobs : (mon[j] = "stat" /\ mon'[j] = "returned") =>
             /\ finished'[j].sends = finished[j].sends + 1
             /\ messages'[j] = messages[j]]_vars

\* C18 witness: a monitor without adapter has acknowledged before the stop
\* signal was sent, and the job's directory was removed later on.
C18_Witness ==
    \E j \in Jobs :
        /\ mon[j] = "returned" /\ messages[j].buf = 1
        /\ cleanup[j] = "done" /\ ~dirExists[j]

\* C19: a monitor is at the progress_info dispatch exactly when the
\* intermediate result it has just read has status ok; a file that is absent,
\* cannot be opened or cannot be parsed gives status error, and the monitor
\* goes on to its sleep with the process running as before.
C19_ReportIffOk ==
    /\ [](\A j \in Jobs :
            /\ mon[j] = "report" => intermediateResults[j].status = "ok"
            /\ intermediateResults[j].status = "error" => mon[j] = "sleep"
            /\ intermediateResults[j].file = "unreadable" =>
                   intermediateResults[j].status = "error")
    /\ [][\A j \in Jobs : (mon[j] = "read" /\ mon'[j] # "read") =>
             /\ exitCode' = exitCode
             /\ intermediateResults'[j].status \in {"ok", "error"}
             /\ mon'[j] = "report" <=> intermediateResults'[j].status = "ok"]_vars

\* C19 witness: a monitor has found no usable intermediate result and sleeps,
\* and another one reports a result with status ok.
C19_Witness ==
    /\ Alive
    /\ \E j \in Jobs : mon[j] = "sleep" /\ intermediateResults[j].file = "unreadable"
    /\ \E j \in Jobs : mon[j] = "report"

\* C21: each 'messages' channel gets one send, from the main flow, and is
\* closed once, after that send; each 'finished' channel gets one send, from
\* the job's monitor, and is closed once, by the cleanup, after that send has
\* been received; no send is on a closed channel, and whenever the main flow
\* or a monitor is at a send the channel has room for it.
C21_ChannelSafety ==
    /\ [](\A j \in Jobs :
            /\ messages[j].sends <= 1 /\ messages[j].closes <= 1
            /\ finished[j].sends <= 1 /\ finished[j].closes <= 1
            /\ messages[j].closed => messages[j].sends = 1
            /\ finished[j].closed => (finished[j].sends = 1 /\ cleanup[j] = "done")
            /\ messages[j].buf <= ChanCap /\ finished[j].buf <= ChanCap)
    /\ [](pc = "stop" =>
            (cur \in Jobs /\ messages[cur].buf < ChanCap /\ ~messages[cur].closed))
    /\ [](\A j \in Jobs :
            (mon[j] = "stat" \/ (mon[j] = "sleep" /\ StopSent(j))) =>
                (finished[j].buf < ChanCap /\ ~finished[j].closed))
    /\ [][\A j \in Jobs :
            /\ messages'[j].sends > messages[j].sends =>
                  (~messages[j].closed /\ pc = "stop" /\ cur = j)
            /\ finished'[j].sends > finished[j].sends =>
                  (~finished[j].closed /\ ~finished'[j].closed)
            /\ finished'[j].closes > finished[j].closes =>
                  (cleanup[j] = "waiting" /\ cleanup'[j] = "done" /\ finished[j].buf = 1)]_vars

\* C21 witness: both channels of a job have had their one send and their one
\* close, the monitor having taken the stop signal from 'messages'.
C21_Witness ==
    \E j \in Jobs :
        /\ messages[j].sends = 1 /\ messages[j].closes = 1 /\ messages[j].buf = 0
        /\ finished[j].sends = 1 /\ finished[j].closes = 1 /\ finished[j].buf = 0

\* the jobs acquired so far
Acquired == 1..nJobs

\* the positions of the main flow after the mark_as_complete dispatch was issued
AfterMark == {"markInFlight", "uploadBinary", "uploadStdout", "spawnCleanup", "chdirRoot"}

\* the executor and the output_reader of the job in the pipeline have exited
\* zero and its mark_as_complete dispatch is still to come
StepsDone == cur \in Acquired /\ pc \in {"readOutput", "markComplete"}

\* C23: a mark_as_complete dispatch is issued for the job in the pipeline
\* only, which was acquired, and once for it; every next_simulation request
\* finds all jobs acquired so far reported; and once the executor and the
\* output_reader of a job have exited zero the process does not end before the
\* job's dispatch, unless a progress_monitor adapter fails.
C23_ReportedOnce ==
    /\ [](\A j \in Jobs : markStarted[j] => j \in Acquired)
    /\ [](\A j \in Acquired : j # cur => markStarted[j])
    /\ []((cur \in Jobs /\ pc \in AfterMark) => markStarted[cur])
    /\ []((StepsDone /\ ~Alive) => exitCause = "adapter:progress_monitor")
    /\ [][/\ (pc = "acqLoop" /\ pc' = "classify") =>
               (cur = 0 /\ \A j \in Acquired : markStarted[j])
          /\ markStarted' # markStarted =>
               /\ pc = "markComplete" /\ pc' = "markInFlight"
               /\ cur \in Acquired /\ ~markStarted[cur]
               /\ markStarted' = [markStarted EXCEPT ![cur] = TRUE]
          /\ (pc = "markComplete" /\ pc' # pc) => markStarted' # markStarted]_vars

\* C22: once the executor of a job has returned without error, either the
\* process exits, or the job's monitor sends its acknowledgment and returns
\* and the job's cleanup removes the directory; so under fair scheduling no
\* monitor and no cleanup of such a job waits for ever.
C22_ShutdownLive ==
    \A j \in Jobs :
        (cur = j /\ pc = "stop") ~>
            \/ ~Alive
            \/ /\ AckSent(j) /\ mon[j] = "returned"
               /\ cleanup[j] = "done" /\ ~dirExists[j]

\* C22 witness: the monitor of the job has taken the stop signal and the
\* cleanup has removed the directory while the main flow is still on its way
\* back to the root directory.
C22_Witness ==
    /\ Alive /\ pc = "chdirRoot" /\ cur \in Jobs
    /\ StopSent(cur) /\ messages[cur].buf = 0
    /\ mon[cur] = "returned" /\ cleanup[cur] = "done" /\ ~dirExists[cur]


(* ------------- ExecuteScalarmRequest and GetWithTimeout --------------- *)

\* how an endpoint of the pool behaves:
\*   up       client.Do succeeds at every attempt and the body can be read
\*   down     client.Do fails at every attempt
\*   late     client.Do fails at the first attempt and succeeds from the second
\*   badurl   http.NewRequest fails on the address
\*   badbody  client.Do succeeds and ioutil.ReadAll fails
Kinds == {"up", "down", "late", "badurl", "badbody"}

\* rand.Perm(n): the orders in which n endpoints can be tried
Perms(n) == {p \in [1..n -> 1..n] : \A i, k \in 1..n : p[i] = p[k] => i = k}

\* one call, for every pool, permutation and positive timeout within the bounds
DispatchInit ==
    /\ MainInit
    /\ \E n \in 1..MaxPool :
         /\ dPool \in [1..n -> Kinds]
         /\ dPerm \in Perms(n)
         /\ dAttempts = [e \in 1..n |-> 0]
         /\ dLastStart = [e \in 1..n |-> 0]
         /\ dSpent = [e \in 1..n |-> 0]
    /\ dTimeout \in 1..MaxTimeout
    /\ dIdx = 1
    /\ dPc = "range"
    /\ dElapsed = 0
    /\ dResult = "none"
    /\ dFrom = 0

\* faulty variant: the loop tests 'not before' instead of 'after'
WithinTimeout_Inclusive(el, t) == el <= t

\* communicationStart.Add(communicationTimeout).After(time.Now())
WithinTimeout(el, t) == el < t

\* err == nil from client.Do at the k-th attempt (k counted from 1) on endpoint e
DoSucceeds(e, k) ==
    \/ dPool[e] \in {"up", "badbody"}
    \/ dPool[e] = "late" /\ k >= 2

\* 'for _, v := range perm': the next endpoint's request is built, or the pool
\* is exhausted and Fatal ends the process; a request that cannot be built is
\* fatal at once
BuildRequest ==
    /\ dPc = "range"
    /\ \/ /\ dIdx > Len(dPerm)
          /\ dResult' = "fatal"
          /\ dPc' = "done"
          /\ UNCHANGED dElapsed
       \/ /\ dIdx <= Len(dPerm)
          /\ dPool[dPerm[dIdx]] = "badurl"
          /\ dResult' = "fatal"
          /\ dPc' = "done"
          /\ UNCHANGED dElapsed
       \/ /\ dIdx <= Len(dPerm)
          /\ dPool[dPerm[dIdx]] # "badurl"
          /\ dPc' = "get"
          /\ dElapsed' = 0
          /\ UNCHANGED dResult
    /\ UNCHANGED <<dPool, dPerm, dTimeout, dIdx, dFrom, dAttempts, dLastStart, dSpent>>
    /\ UNCHANGED mvars

\* faulty variant: the range loop goes on after a response
AfterResponse_Continue == "range"

\* 'if err == nil { return response }': where the call is after a response
AfterResponse == "done"

\* one pass of GetWithTimeout's loop: client.Do, then the back-off on an error,
\* or the break, ReadAll and the return on a response
GetAttempt ==
    /\ dPc = "get"
    /\ WithinTimeout(dElapsed, dTimeout)
    /\ LET e == dPerm[dIdx]
           k == dAttempts[e] + 1
       IN  /\ dAttempts' = [dAttempts EXCEPT ![e] = k]
           /\ dLastStart' = [dLastStart EXCEPT ![e] = dElapsed]
           /\ \/ /\ ~DoSucceeds(e, k)
                 /\ \E dur \in 0..MaxDoTime : dElapsed' = dElapsed + dur + DoBackoff
                 /\ UNCHANGED <<dIdx, dPc, dResult, dFrom, dSpent>>
              \/ /\ DoSucceeds(e, k)
                 /\ dPool[e] # "badbody"
                 /\ dResult' = "returned"
                 /\ dFrom' = e
                 /\ dPc' = AfterResponse
                 /\ dSpent' = [dSpent EXCEPT ![e] = dElapsed]
                 /\ UNCHANGED <<dIdx, dElapsed>>
              \/ /\ DoSucceeds(e, k)
                 /\ dPool[e] = "badbody"
                 /\ dIdx' = dIdx + 1
                 /\ dPc' = "range"
                 /\ dSpent' = [dSpent EXCEPT ![e] = dElapsed]
                 /\ UNCHANGED <<dElapsed, dResult, dFrom>>
    /\ UNCHANGED <<dPool, dPerm, dTimeout>>
    /\ UNCHANGED mvars

\* the loop ends with communicationFailed still true: this endpoint has failed
GetTimedOut ==
    /\ dPc = "get"
    /\ ~WithinTimeout(dElapsed, dTimeout)
    /\ dSpent' = [dSpent EXCEPT ![dPerm[dIdx]] = dElapsed]
    /\ dIdx' = dIdx + 1
    /\ dPc' = "range"
    /\ UNCHANGED <<dPool, dPerm, dTimeout, dElapsed, dResult, dFrom, dAttempts,
                   dLastStart>>
    /\ UNCHANGED mvars

DispatchNext ==
    \/ BuildRequest
    \/ GetAttempt
    \/ GetTimedOut

DispatchSpec == DispatchInit /\ [][DispatchNext]_vars

(* ---------------------- claims under DispatchSpec --------------------- *)

Pool == DOMAIN dPool

\* C8: when the pool holds an endpoint that answers, the call returns the body
\* of an endpoint that answers and the process is not ended, whatever the
\* permutation.
C8_AnswerReturned ==
    (dPc = "done" /\ \E e \in Pool : dPool[e] = "up")
        => (dResult = "returned" /\ dPool[dFrom] \in {"up", "late"})

BeforeBadUrl(e) ==
    \E i \in 1..Len(dPerm) :
        /\ dPerm[i] = e
        /\ \A k \in 1..i : dPool[dPerm[k]] # "badurl"

PosOf(e) == CHOOSE i \in 1..Len(dPerm) : dPerm[i] = e

\* C20: the endpoints are attempted in the order of the permutation drawn at
\* the start of the call: an attempt is on the endpoint the range loop is at,
\* starts before the timeout has elapsed for that endpoint, and the loop moves
\* one endpoint forward only when that endpoint has failed (every client.Do up
\* to the timeout, or the read of the body); once an endpoint has given a body
\* the call has returned it and no endpoint is attempted any more, so the
\* endpoints after it are never contacted.
C20_OrderedFailover ==
    /\ [](\A e \in Pool :
            /\ PosOf(e) > dIdx => dAttempts[e] = 0
            /\ dAttempts[e] >= 1 => dLastStart[e] < dTimeout
            /\ PosOf(e) < dIdx =>
                  /\ dAttempts[e] >= 1
                  /\ \/ dPool[e] = "badbody"
                     \/ ~DoSucceeds(e, dAttempts[e]) /\ dSpent[e] >= dTimeout)
    /\ [](dResult = "returned" =>
            /\ dPc = "done"
            /\ dFrom = dPerm[dIdx]
            /\ DoSucceeds(dFrom, dAttempts[dFrom]) /\ dPool[dFrom] # "badbody")
    /\ [][/\ dPerm' = dPerm
          /\ dIdx' \in {dIdx, dIdx + 1}
          /\ \A e \in Pool : dAttempts'[e] # dAttempts[e] =>
                /\ e = dPerm[dIdx]
                /\ dAttempts'[e] = dAttempts[e] + 1
                /\ dResult = "none"]_vars

\* C20 witness: the first endpoint of the permutation was down until its
\* timeout, the second one answered after one failed attempt, and the call
\* returned its body.
C20_Witness ==
    /\ dPc = "done" /\ dResult = "returned"
    /\ Len(dPerm) = 2 /\ dIdx = 2 /\ dFrom = dPerm[2]
    /\ dPool[dPerm[1]] = "down" /\ dAttempts[dPerm[1]] >= 2
    /\ dPool[dFrom] = "late" /\ dAttempts[dFrom] = 2

====
